---- MODULE Spec2Model ----
(***************************************************************************)
(* A model of scripts/bounding_box.py (class BoundingBox) and of           *)
(* scripts/match_sift_features_and_filter.py of FijiBento.                 *)
(*                                                                         *)
(* Numbers.  The scripts are Python 2: BoundingBox stores float(x) of each *)
(* argument, its default arguments are the machine integers sys.maxint and *)
(* -sys.maxint - 1, and '{0}'.format(x) of a float x is str(x), which      *)
(* keeps 12 significant decimal digits.  The model keeps the three widths  *)
(* and their order (10^StrDigits < 2^MantBits < 2^(WordBits-1)) but scales *)
(* them down, so that a float is an integer with at most MantBits          *)
(* significant bits.                                                       *)
(***************************************************************************)
EXTENDS Integers, Sequences, FiniteSets, TLC

\* Width of the significand of a float (53 in CPython), scaled down.
MantBits == 4
\* Width of a machine integer (64 where sys.maxint = 2^63 - 1), scaled down.
WordBits == 6
\* Significant decimal digits str(float) keeps (12 in Python 2), scaled down.
StrDigits == 1
\* Small coordinates 0..MaxSmall that explicit constructor calls draw from.
MaxSmall == 1
\* Most tokens of an input string of fromStr.
MaxTokens == 5
\* Most extend calls made on an aggregate box.
MaxExtends == 2
\* Most tiles of a tile specification file.
MaxTiles == 3
\* Largest thread count given on the command line.
MaxThreads == 2

VARIABLES
  pc,        \* position of the driving script
  args,      \* the arguments of the constructor call that builds a
  a,         \* a BoundingBox object (or NoBox while unbound)
  b,         \* a second BoundingBox object (or NoBox while unbound)
  op,        \* the last method called
  ret,       \* what the last call of overlap returned
  hull,      \* smallest box containing the boxes an aggregate was extended by
  k,         \* number of extend calls made on the aggregate
  s,         \* a string: the argument of fromStr, or the value of toStr
  lst,       \* a list: the value of toArray
  out,       \* what the last call of fromStr or fromList returned or raised
  tiles,     \* the bounding boxes of the tilespecs in tiles_file
  threads_num, \* the -t option of the command line (None when not given)
  cmd        \* the shell command handed to utils.execute_shell_command

vars == <<pc, args, a, b, op, ret, hull, k, s, lst, out, tiles, threads_num, cmd>>

-----------------------------------------------------------------------------
(* Numbers *)

RECURSIVE Pow(_, _)
Pow(base, e) == IF e = 0 THEN 1 ELSE base * Pow(base, e - 1)

Abs(n) == IF n < 0 THEN -n ELSE n

Min(x, y) == IF x < y THEN x ELSE y

Max(x, y) == IF x > y THEN x ELSE y

\* The unit in the last place of m >= 0 written with `digits` digits in `base`.
RECURSIVE Ulp(_, _, _, _)
Ulp(m, base, digits, u) ==
  IF m < Pow(base, digits) * u THEN u ELSE Ulp(m, base, digits, base * u)

\* m >= 0 rounded to the nearest multiple of u, a tie to the even multiple.
RoundTo(m, u) ==
  LET q == m \div u
      r == m % u
  IN  IF 2 * r < u THEN q * u
      ELSE IF 2 * r > u THEN (q + 1) * u
      ELSE IF q % 2 = 0 THEN q * u ELSE (q + 1) * u

\* n rounded to `digits` significant digits in `base`.
RoundSig(n, base, digits) ==
  LET m == Abs(n)
      r == RoundTo(m, Ulp(m, base, digits, 1))
  IN  IF n < 0 THEN -r ELSE r

\* float(n) of a number n: the nearest float.
Float(n) == RoundSig(n, 2, MantBits)

\* sys.maxint
maxint == Pow(2, WordBits - 1) - 1

-----------------------------------------------------------------------------
(* Python values *)

\* A number.
Num(n) == [t |-> "num", n |-> n, s |-> <<>>]

\* A string: a sequence of symbols.
Str(x) == [t |-> "str", n |-> 0, s |-> x]

\* The symbols of a string: a space, a character of no number, and a whole
\* numeric literal (a maximal run of characters spelling the number v).
SP == [c |-> "space", v |-> 0]

JUNK == [c |-> "letter", v |-> 0]

Lit(v) == [c |-> "number", v |-> v]

\* An exception raised instead of a value returned.
Raised == [exc |-> TRUE]

\* No object bound yet.
NoBox == [none |-> TRUE]

\* None
None == [some |-> FALSE]

Some(x) == [some |-> TRUE, val |-> x]

\* float(x): x is a number or a string.  A string is a number when it is one
\* numeric literal; float of any other string raises ValueError.
float_raises(x) == x.t = "str" /\ ~(Len(x.s) = 1 /\ x.s[1].c = "number")

float(x) == IF x.t = "num" THEN Float(x.n) ELSE Float(x.s[1].v)

-----------------------------------------------------------------------------
(* class BoundingBox *)

validate_mut_ge(self) ==
  IF (self.from_x >= self.to_x) \/ (self.from_y >= self.to_y) THEN FALSE ELSE TRUE

validate(self) ==
  IF (self.from_x > self.to_x) \/ (self.from_y > self.to_y) THEN FALSE ELSE TRUE

\* BoundingBox(from_x, to_x, from_y, to_y): the new object, or Raised.
BoundingBox(from_x, to_x, from_y, to_y) ==
  IF \E x \in {from_x, to_x, from_y, to_y} : float_raises(x) THEN Raised
  ELSE LET self == [from_x |-> float(from_x), to_x |-> float(to_x),
                    from_y |-> float(from_y), to_y |-> float(to_y)]
       IN  IF ~validate(self) THEN Raised ELSE self

\* The default arguments of __init__.
DefaultArgs == <<-maxint - 1, maxint, -maxint - 1, maxint>>

overlap_mut_le(self, other_bbox) ==
  IF (self.from_x <= other_bbox.to_x) /\ (self.to_x >= other_bbox.from_x) /\
     (self.from_y <= other_bbox.to_y) /\ (self.to_y >= other_bbox.from_y)
  THEN TRUE ELSE FALSE

overlap_mut_x_only(self, other_bbox) ==
  IF (self.from_x < other_bbox.to_x) /\ (self.to_x > other_bbox.from_x)
  THEN TRUE ELSE FALSE

overlap(self, other_bbox) ==
  IF (self.from_x < other_bbox.to_x) /\ (self.to_x > other_bbox.from_x) /\
     (self.from_y < other_bbox.to_y) /\ (self.to_y > other_bbox.from_y)
  THEN TRUE ELSE FALSE

extend_mut_to_y(self, other_bbox) ==
  LET s1 == IF self.from_x > other_bbox.from_x
            THEN [self EXCEPT !.from_x = other_bbox.from_x] ELSE self
      s2 == IF s1.from_y > other_bbox.from_y
            THEN [s1 EXCEPT !.from_y = other_bbox.from_y] ELSE s1
      s3 == IF s2.to_x < other_bbox.to_x
            THEN [s2 EXCEPT !.to_x = other_bbox.to_x] ELSE s2
  IN  IF s3.to_y < other_bbox.to_x
      THEN [s3 EXCEPT !.to_y = other_bbox.to_x] ELSE s3

extend_mut_assign(self, other_bbox) ==
  LET s1 == IF self.from_x > other_bbox.from_x
            THEN [self EXCEPT !.from_x = other_bbox.from_x] ELSE self
      s2 == IF s1.from_y > other_bbox.from_y
            THEN [s1 EXCEPT !.from_y = other_bbox.from_y] ELSE s1
      s3 == [s2 EXCEPT !.to_x = other_bbox.to_x]
  IN  IF s3.to_y < other_bbox.to_y
      THEN [s3 EXCEPT !.to_y = other_bbox.to_y] ELSE s3

\* self after self.extend(other_bbox).
extend(self, other_bbox) ==
  LET s1 == IF self.from_x > other_bbox.from_x
            THEN [self EXCEPT !.from_x = other_bbox.from_x] ELSE self
      s2 == IF s1.from_y > other_bbox.from_y
            THEN [s1 EXCEPT !.from_y = other_bbox.from_y] ELSE s1
      s3 == IF s2.to_x < other_bbox.to_x
            THEN [s2 EXCEPT !.to_x = other_bbox.to_x] ELSE s2
  IN  IF s3.to_y < other_bbox.to_y
      THEN [s3 EXCEPT !.to_y = other_bbox.to_y] ELSE s3

\* bbox_str.split(" "): the list of the runs between single spaces.
RECURSIVE split_from(_, _, _)
split_from(str, i, cur) ==
  IF i > Len(str) THEN <<Str(cur)>>
  ELSE IF str[i] = SP THEN <<Str(cur)>> \o split_from(str, i + 1, <<>>)
  ELSE split_from(str, i + 1, Append(cur, str[i]))

split(str) == split_from(str, 1, <<>>)

\* BoundingBox.fromList(bbox_list); bbox_list[3] of a shorter list raises
\* IndexError, elements after the fourth are not read.
fromList(bbox_list) ==
  IF Len(bbox_list) < 4 THEN Raised
  ELSE BoundingBox(bbox_list[1], bbox_list[2], bbox_list[3], bbox_list[4])

\* BoundingBox.fromStr(bbox_str)
fromStr(bbox_str) == fromList(split(bbox_str))

\* '{0}'.format(x) of a float x: the literal of x rounded to StrDigits
\* significant decimal digits.
format(x) == Lit(RoundSig(x, 10, StrDigits))

\* self.toStr()
toStr(self) ==
  <<format(self.from_x), SP, format(self.to_x), SP,
    format(self.from_y), SP, format(self.to_y)>>

\* self.toArray()
toArray(self) ==
  <<Num(self.from_x), Num(self.to_x), Num(self.from_y), Num(self.to_y)>>

-----------------------------------------------------------------------------
(* A script that builds two boxes and calls their methods *)

\* The coordinates explicit constructor calls are made with: floats, small
\* ones and ones at and beyond the default bounds.
Coords ==
  {Float(n) : n \in 0..MaxSmall} \cup {Float(maxint), Float(2 * Float(maxint))}

ArgSets == (Coords \X Coords \X Coords \X Coords) \cup {DefaultArgs}

New(x) == BoundingBox(Num(x[1]), Num(x[2]), Num(x[3]), Num(x[4]))

\* The boxes these calls return.
ValidBoxes == {New(x) : x \in ArgSets} \ {Raised}

Idle ==
  /\ hull = NoBox /\ k = 0 /\ s = <<>> /\ lst = <<>> /\ out = NoBox
  /\ tiles = <<>> /\ threads_num = None /\ cmd = <<>>

Init ==
  /\ pc = "new_a"
  /\ args \in ArgSets
  /\ a = NoBox /\ b = NoBox
  /\ op = "none" /\ ret = FALSE
  /\ Idle

\* a = BoundingBox(*args)
ConstructA ==
  /\ pc = "new_a"
  /\ IF New(args) = Raised
     THEN pc' = "raised_a" /\ UNCHANGED a
     ELSE pc' = "new_b" /\ a' = New(args)
  /\ op' = "init"
  /\ UNCHANGED <<args, b, ret, hull, k, s, lst, out, tiles, threads_num, cmd>>

\* b = BoundingBox(*x)
ConstructB ==
  /\ pc = "new_b"
  /\ \E x \in ArgSets :
       IF New(x) = Raised
       THEN pc' = "raised_b" /\ UNCHANGED b
       ELSE pc' = "ready" /\ b' = New(x)
  /\ op' = "init"
  /\ UNCHANGED <<args, a, ret, hull, k, s, lst, out, tiles, threads_num, cmd>>

\* a.overlap(b)
OverlapAB ==
  /\ pc = "ready"
  /\ ret' = overlap(a, b)
  /\ op' = "a.overlap(b)"
  /\ UNCHANGED <<pc, args, a, b, hull, k, s, lst, out, tiles, threads_num, cmd>>

\* b.overlap(a)
OverlapBA ==
  /\ pc = "ready"
  /\ ret' = overlap(b, a)
  /\ op' = "b.overlap(a)"
  /\ UNCHANGED <<pc, args, a, b, hull, k, s, lst, out, tiles, threads_num, cmd>>

\* a.extend(b)
ExtendAB ==
  /\ pc = "ready"
  /\ a' = extend(a, b)
  /\ op' = "a.extend(b)"
  /\ UNCHANGED <<pc, args, b, ret, hull, k, s, lst, out, tiles, threads_num, cmd>>

\* b.extend(a)
ExtendBA ==
  /\ pc = "ready"
  /\ b' = extend(b, a)
  /\ op' = "b.extend(a)"
  /\ UNCHANGED <<pc, args, a, ret, hull, k, s, lst, out, tiles, threads_num, cmd>>

Next ==
  \/ ConstructA
  \/ ConstructB
  \/ OverlapAB
  \/ OverlapBA
  \/ ExtendAB
  \/ ExtendBA

Spec == Init /\ [][Next]_vars

-----------------------------------------------------------------------------
(* Properties of Spec *)

DefaultBox == New(DefaultArgs)

Degenerate(x) == x.from_x = x.to_x \/ x.from_y = x.to_y

StrictlyInside(d, o) ==
  /\ o.from_x < d.from_x /\ d.to_x < o.to_x
  /\ o.from_y < d.from_y /\ d.to_y < o.to_y

Contains(o, x) ==
  /\ o.from_x <= x.from_x /\ x.to_x <= o.to_x
  /\ o.from_y <= x.from_y /\ x.to_y <= o.to_y

\* The boxes meet on a boundary line of both.
Touch(x, y) ==
  \/ x.to_x = y.from_x \/ y.to_x = x.from_x
  \/ x.to_y = y.from_y \/ y.to_y = x.from_y

\* What the claim says self.overlap(other) returns.
OverlapContract(self, other, r) ==
  /\ r <=> (self.from_x < other.to_x /\ self.to_x > other.from_x /\
            self.from_y < other.to_y /\ self.to_y > other.from_y)
  /\ Touch(self, other) => ~r
  /\ (~Degenerate(self) /\ Contains(other, self)) => r
  /\ (~Degenerate(other) /\ Contains(self, other)) => r

\* C1: overlap returns true exactly when the four strict comparisons hold;
\* boxes that share only an edge or a corner do not overlap, and a box of
\* positive area contained in another overlaps it.
C1_OverlapStrict ==
  /\ op = "a.overlap(b)" => OverlapContract(a, b, ret)
  /\ op = "b.overlap(a)" => OverlapContract(b, a, ret)

\* C1 witness: a.overlap(b) returned false for two boxes of positive area
\* that share the edge x = a.to_x.
C1_Witness ==
  /\ op = "a.overlap(b)" /\ ~ret
  /\ ~Degenerate(a) /\ ~Degenerate(b)
  /\ a.to_x = b.from_x /\ a.from_y = b.from_y /\ a.to_y = b.to_y

\* C2: the constructor raises exactly when from_x > to_x or from_y > to_y
\* (equal bounds are accepted), and no box object has from_x > to_x or
\* from_y > to_y.
C2_ConstructorValidates ==
  /\ pc # "new_a" =>
       ((pc = "raised_a") <=> (args[1] > args[2] \/ args[3] > args[4]))
  /\ a # NoBox => (a.from_x <= a.to_x /\ a.from_y <= a.to_y)
  /\ b # NoBox => (b.from_x <= b.to_x /\ b.from_y <= b.to_y)

\* C2 witness: a constructor call with from_x = to_x and from_y > to_y raised.
C2_Witness ==
  pc = "raised_a" /\ args[1] = args[2] /\ args[3] > args[4]

\* What the claim says self.extend(other) does: self, other before; self2,
\* other2 after.
ExtendContract(self, other, self2, other2) ==
  /\ self2 = [from_x |-> Min(self.from_x, other.from_x),
              to_x   |-> Max(self.to_x, other.to_x),
              from_y |-> Min(self.from_y, other.from_y),
              to_y   |-> Max(self.to_y, other.to_y)]
  /\ other2 = other
  /\ self2.from_x <= self2.to_x /\ self2.from_y <= self2.to_y
  /\ Contains(self, other) => self2 = self

\* C7: extend sets self to the smallest box containing self and other and
\* leaves other unchanged; every box stays valid; extending by a contained
\* box changes nothing.
C7_ExtendIsUnion ==
  [][ /\ op' = "a.extend(b)" => ExtendContract(a, b, a', b')
      /\ op' = "b.extend(a)" => ExtendContract(b, a, b', a') ]_vars

\* C7 witness: a.extend(b) has changed a from the box it was constructed as.
C7_Witness ==
  op = "a.extend(b)" /\ a # New(args) /\ Contains(a, b)

DegenerateContract(d, o, r) ==
  /\ (d.from_x = d.to_x /\ r) => (o.from_x < d.from_x /\ d.to_x < o.to_x)
  /\ (d.from_y = d.to_y /\ r) => (o.from_y < d.from_y /\ d.to_y < o.to_y)
  /\ (Degenerate(d) /\ d = o) => ~r
  /\ (Degenerate(d) /\ StrictlyInside(d, o)) => r

C9_DefaultOverlapsAll ==
  (op \in {"a.overlap(b)", "b.overlap(a)"} /\ ~Degenerate(b) /\
   args = DefaultArgs /\ a = DefaultBox)
    => ret

-----------------------------------------------------------------------------
(* A script that grows an aggregate box from BoundingBox() *)

\* The smallest box containing the boxes x and y.
Hull(x, y) ==
  [from_x |-> Min(x.from_x, y.from_x), to_x |-> Max(x.to_x, y.to_x),
   from_y |-> Min(x.from_y, y.from_y), to_y |-> Max(x.to_y, y.to_y)]

InitAgg ==
  /\ pc = "aggregate"
  /\ args = DefaultArgs
  /\ a = New(DefaultArgs)
  /\ b = NoBox
  /\ op = "init" /\ ret = FALSE
  /\ hull = NoBox /\ k = 0
  /\ s = <<>> /\ lst = <<>> /\ out = NoBox
  /\ tiles = <<>> /\ threads_num = None /\ cmd = <<>>

\* b = BoundingBox(*x), for arguments the constructor accepts; a.extend(b)
ExtendAggregate ==
  /\ pc = "aggregate"
  /\ k < MaxExtends
  /\ \E new \in ValidBoxes :
       /\ b' = new
       /\ a' = extend(a, new)
       /\ hull' = IF hull = NoBox THEN new ELSE Hull(hull, new)
  /\ k' = k + 1
  /\ op' = "a.extend(b)"
  /\ UNCHANGED <<pc, args, ret, s, lst, out, tiles, threads_num, cmd>>

NextAgg == ExtendAggregate

SpecAgg == InitAgg /\ [][NextAgg]_vars

-----------------------------------------------------------------------------
(* A script that parses a string, and one that serializes a box and parses
   the result *)

\* The tokens of the strings given to fromStr: the empty token (two spaces in
\* a row, or a space at an end), a word that is no number, and numbers.
Tokens == {<<>>, <<JUNK>>} \cup {<<Lit(v)>> : v \in 0..MaxSmall}

RECURSIVE Join(_)
Join(toks) ==
  IF Len(toks) = 1 THEN toks[1]
  ELSE toks[1] \o <<SP>> \o Join(Tail(toks))

Texts == {Join(toks) : toks \in UNION {[1..n -> Tokens] : n \in 1..MaxTokens}}

InitSer ==
  /\ \/ pc = "text" /\ s \in Texts /\ a = NoBox
     \/ pc = "box" /\ s = <<>> /\ a \in ValidBoxes
  /\ args = DefaultArgs
  /\ b = NoBox
  /\ op = "none" /\ ret = FALSE
  /\ hull = NoBox /\ k = 0
  /\ lst = <<>> /\ out = NoBox
  /\ tiles = <<>> /\ threads_num = None /\ cmd = <<>>

\* BoundingBox.fromStr(s)
FromStr ==
  /\ pc = "text"
  /\ out' = fromStr(s)
  /\ pc' = "parsed"
  /\ UNCHANGED <<args, a, b, op, ret, hull, k, s, lst, tiles, threads_num, cmd>>

\* s = a.toStr()
ToStr ==
  /\ pc = "box"
  /\ s' = toStr(a)
  /\ pc' = "str"
  /\ UNCHANGED <<args, a, b, op, ret, hull, k, lst, out, tiles, threads_num, cmd>>

\* BoundingBox.fromStr(s) of s = a.toStr()
FromStrBack ==
  /\ pc = "str"
  /\ out' = fromStr(s)
  /\ pc' = "str_back"
  /\ UNCHANGED <<args, a, b, op, ret, hull, k, s, lst, tiles, threads_num, cmd>>

\* lst = a.toArray()
ToArray ==
  /\ pc = "box"
  /\ lst' = toArray(a)
  /\ pc' = "array"
  /\ UNCHANGED <<args, a, b, op, ret, hull, k, s, out, tiles, threads_num, cmd>>

\* BoundingBox.fromList(lst) of lst = a.toArray()
FromListBack ==
  /\ pc = "array"
  /\ out' = fromList(lst)
  /\ pc' = "array_back"
  /\ UNCHANGED <<args, a, b, op, ret, hull, k, s, lst, tiles, threads_num, cmd>>

NextSer ==
  \/ FromStr
  \/ ToStr
  \/ FromStrBack
  \/ ToArray
  \/ FromListBack

SpecSer == InitSer /\ [][NextSer]_vars

\* The token is the text of a number.
Numeric(tok) == ~float_raises(tok)

\* C6 as stated: fromStr raises whenever the string has fewer or more than
\* four tokens or a token that is no number; it returns a box only for
\* exactly four numeric tokens.
C6_FromStrRejectsMalformed ==
  pc = "parsed" =>
    LET toks == split(s)
    IN  (Len(toks) # 4 \/ \E i \in 1..Len(toks) : ~Numeric(toks[i]))
          => out = Raised

\* C8 as stated: fromStr(a.toStr()) and fromList(a.toArray()) have the four
\* bounds of a, and position k of toArray() and of toStr() holds the field
\* that position k of fromList() and fromStr() reads.
C8_SerializationRoundTrips ==
  /\ pc = "str_back" => out = a
  /\ pc = "array_back" =>
       /\ out = a
       /\ lst = <<Num(out.from_x), Num(out.to_x), Num(out.from_y), Num(out.to_y)>>

-----------------------------------------------------------------------------
(* scripts/match_sift_features_and_filter.py *)

\* One option of the java command line, with its (at most two) numbers.
Opt(name, x, y) == [opt |-> name, x |-> x, y |-> y]

\* match_multiple_sift_features_and_filter(..., index_pairs, ..., threads_num):
\* the options of the java command it executes that depend on index_pairs
\* and threads_num (file names, jar and conf_args are left out).
match_multiple_sift_features_and_filter(index_pairs, t_num) ==
  LET indices ==
        IF index_pairs # None
        THEN [i \in 1..Len(index_pairs.val) |->
                Opt("--indices", index_pairs.val[i][1], index_pairs.val[i][2])]
        ELSE <<Opt("--all", 0, 0)>>
      threads_str ==
        IF t_num # None THEN <<Opt("--threads", t_num.val, 0)>> ELSE <<>>
  IN  indices \o threads_str

\* match_sift_features_and_filter(tiles_file, ..., threads_num): the loop over
\* the pairs of tiles is commented out, and the call passes index_pairs=None
\* and threads_num=None whatever it was given.
match_sift_features_and_filter(tiles_file, t_num) ==
  match_multiple_sift_features_and_filter(None, None)

\* The bounding boxes a tile specification file may hold.
TileBoxes == {x \in ValidBoxes : x.from_y = 0 /\ x.to_y = 1}

InitMatch ==
  /\ pc = "main"
  /\ tiles \in UNION {[1..n -> TileBoxes] : n \in 0..MaxTiles}
  /\ threads_num \in {None} \cup {Some(n) : n \in 1..MaxThreads}
  /\ cmd = <<>>
  /\ args = DefaultArgs
  /\ a = NoBox /\ b = NoBox
  /\ op = "none" /\ ret = FALSE
  /\ hull = NoBox /\ k = 0
  /\ s = <<>> /\ lst = <<>> /\ out = NoBox

\* main(): parse the command line and call match_sift_features_and_filter,
\* which executes the java command.
main ==
  /\ pc = "main"
  /\ cmd' = match_sift_features_and_filter(tiles, threads_num)
  /\ pc' = "done"
  /\ UNCHANGED <<args, a, b, op, ret, hull, k, s, lst, out, tiles, threads_num>>

NextMatch == main

SpecMatch == InitMatch /\ [][NextMatch]_vars

\* The options named `name` of a command.
Options(c, name) == {i \in 1..Len(c) : c[i].opt = name}

\* The pairs of tile indices a command asks the engine to match: those of its
\* --indices options, or with --all every pair of the n tiles.
Requested(c, n) ==
  IF Options(c, "--all") # {}
  THEN {p \in (0..n - 1) \X (0..n - 1) : p[1] < p[2]}
  ELSE {<<c[i].x, c[i].y>> : i \in Options(c, "--indices")}

\* C3 as stated: the engine is handed exactly the pairs (i, j), i < j, of
\* tiles whose boxes overlap, each once, and none for fewer than two tiles.
C3_RequestsOverlappingPairs ==
  pc = "done" =>
    LET n == Len(tiles)
    IN  /\ Requested(cmd, n) =
             {p \in (0..n - 1) \X (0..n - 1) :
                p[1] < p[2] /\ overlap(tiles[p[1] + 1], tiles[p[2] + 1])}
        /\ Cardinality(Options(cmd, "--indices")) <= Cardinality(Requested(cmd, n))
        /\ n <= 1 => Requested(cmd, n) = {}

\* C10 as stated: the command holds --threads n when threads_num = n, and no
\* --threads option when threads_num is None.
C10_ThreadsReachEngine ==
  pc = "done" =>
    /\ threads_num # None =>
         \E i \in Options(cmd, "--threads") : cmd[i].x = threads_num.val
    /\ threads_num = None => Options(cmd, "--threads") = {}

====
